---- MODULE Spec2Model ----
(***************************************************************************)
(* Hyperliquid perps ETL (ktabes/Hyperliquid_Perps_Data_ETL).              *)
(*                                                                         *)
(* The model follows src/src/hyperliquid_perps_to_dune.py (the pipeline    *)
(* fetch_first_json -> pick_daily_series / pick_snapshot -> overview       *)
(* fallback -> normalize_rows -> write_csv -> upload_to_dune) and          *)
(* build_csv of src/hl_perps_to_dune.py.                                   *)
(*                                                                         *)
(* One behaviour runs one entry point, named by `prog`: the whole script   *)
(* ("main"), or one of its functions applied to inputs drawn from bounded  *)
(* sets ("pick_snapshot", "normalize_rows", "build_csv"), or main() of     *)
(* src/src/hl_perps_append_snapshot.py ("append_snapshot"), of             *)
(* src/src/hl_perps_backfill_from_csv_ci.py ("backfill"), of               *)
(* src/src/hl_perps_snapshot_to_dune.py ("snapshot_to_dune"), or two       *)
(* overlapping runs of the whole script on one checkout ("two_runs").      *)
(***************************************************************************)
EXTENDS Integers, Sequences, FiniteSets, TLC

\* ------------------------------------------------------------------ bounds
\* Longest daily series handed to normalize_rows / build_csv.
MaxLen == 2
\* How many seconds the wall clock may advance during one run.
MaxTicks == 1

\* -------------------------------------------------------------- JSON values
\* A decoded JSON value is a tagged record:
\*   null, a number n, a string of the decimal digits of n ("200"), a string
\*   that is no number ("abc"), a named text, a dict (function from keys), a
\*   list (sequence).
Null == [t |-> "null"]

Num(n) == [t |-> "num", n |-> n]

Str(n) == [t |-> "str", n |-> n]

Text == [t |-> "text"]

\* A string holding the text s (a slug, a protocol name).
Name(s) == [t |-> "name", s |-> s]

Dict(f) == [t |-> "dict", d |-> f]

List(s) == [t |-> "list", l |-> s]

EmptyDict == Dict(<<>>)

IsDict(v) == v.t = "dict"

IsList(v) == v.t = "list"

\* dict.get(k): the value under k, None when the key is absent.
Get(v, k) == IF k \in DOMAIN v.d THEN v.d[k] ELSE Null

\* dict.get(k, default)
GetOr(v, k, default) == IF k \in DOMAIN v.d THEN v.d[k] ELSE default

\* Python truthiness: None, 0, {} and [] are falsy; the strings modelled here
\* are non-empty, hence truthy.
Truthy(v) ==
    CASE v.t = "null" -> FALSE
      [] v.t = "num"  -> v.n # 0
      [] v.t = "dict" -> DOMAIN v.d # {}
      [] v.t = "list" -> Len(v.l) > 0
      [] OTHER        -> TRUE

\* Python `a or b`
Or(a, b) == IF Truthy(a) THEN a ELSE b

\* The variant of `a or b` that only replaces None (a is None -> b).
OrNone(a, b) == IF a # Null THEN a ELSE b

Min(S) == CHOOSE m \in S : \A x \in S : m <= x

Max(S) == CHOOSE m \in S : \A x \in S : m >= x

\* ------------------------------------------------------------ pick_snapshot
SnapFields == {"volume24h", "volume7d", "volume30d", "openInterest", "totalVolume"}

\* The four counters main() looks at to decide on the overview fallback.
CurrentFields == {"volume24h", "volume7d", "volume30d", "openInterest"}

\* The alias list of each snapshot field, in priority order.
Aliases ==
    [volume24h    |-> <<"volume24h", "volume24hUsd", "vol24h">>,
     volume7d     |-> <<"volume7d", "volume7dUsd", "vol7d">>,
     volume30d    |-> <<"volume30d", "volume30dUsd", "vol30d">>,
     openInterest |-> <<"openInterest", "openInterestUsd", "oi", "oiUsd">>,
     totalVolume  |-> <<"totalVolume", "totalVolumeUsd", "lifetimeVolume">>]

\* The nested objects pick_snapshot scans after the payload root, in order.
NestKeys == <<"data", "protocol", "metrics", "summary">>

\* _first_present(d, keys): the value of the first key that is present and
\* not None; None when there is none.
first_present(d, keys) ==
    LET hits == {n \in 1..Len(keys) : keys[n] \in DOMAIN d.d /\ d.d[keys[n]] # Null}
    IN  IF hits = {} THEN Null ELSE d.d[keys[Min(hits)]]

\* pools: [j] plus every j.get(k) that is a dict, for k in NestKeys order.
Pools(j) ==
    IF ~IsDict(j) THEN <<>>
    ELSE <<j>> \o SelectSeq([n \in 1..Len(NestKeys) |-> Get(j, NestKeys[n])], IsDict)

\* One statement of the loop body: out[k] = out[k] or _first_present(blob, ...)
SnapCombine(cur, found) == Or(cur, found)

RECURSIVE SnapFold(_, _, _)
SnapFold(out, pools, n) ==
    IF n > Len(pools) THEN out
    ELSE SnapFold([k \in SnapFields |->
                      SnapCombine(out[k], first_present(pools[n], Aliases[k]))],
                  pools, n + 1)

NoSnapshot == [k \in SnapFields |-> Null]

pick_snapshot(j) == SnapFold(NoSnapshot, Pools(j), 1)

\* -------------------------------------------------------- pick_daily_series
SeriesAliases == <<"daily", "series", "chart", "timeseries">>

ArrayKeys == <<"dailyVolume", "volume", "volumes">>

\* The point built from one element of an aliased series; <<>> when the
\* element is neither a dict nor a list/tuple of at least two entries.
ConvertEl(el) ==
    IF IsDict(el)
    THEN <<Dict([date         |-> Or(Or(Get(el, "date"), Get(el, "timestamp")), Get(el, "time")),
                 volume       |-> Or(Get(el, "volume"), Get(el, "value")),
                 openInterest |-> Or(Get(el, "openInterest"), Get(el, "oi"))])>>
    ELSE IF IsList(el) /\ Len(el.l) >= 2
    THEN <<Dict([date |-> el.l[1], volume |-> el.l[2], openInterest |-> Null])>>
    ELSE <<>>

RECURSIVE ConvertSeq(_)
ConvertSeq(s) == IF s = <<>> THEN <<>> ELSE ConvertEl(Head(s)) \o ConvertSeq(Tail(s))

\* `out` of one candidate: the converted points of a non-empty list, else [].
ConvertCand(cand) == IF IsList(cand) /\ Len(cand.l) > 0 THEN ConvertSeq(cand.l) ELSE <<>>

\* The `out` lists the loop over SeriesAliases builds for alias k, in the
\* order the code tests them.
AliasOuts(j, data, k) ==
    LET blob == Or(GetOr(j, k, EmptyDict), GetOr(data, k, EmptyDict))
    IN  IF IsDict(blob)
        THEN [n \in 1..Len(ArrayKeys) |-> ConvertCand(Get(blob, ArrayKeys[n]))]
        ELSE <<ConvertCand(blob)>>

RECURSIVE FirstNonEmpty(_)
FirstNonEmpty(outs) ==
    IF outs = <<>> THEN <<>>
    ELSE IF Head(outs) # <<>> THEN Head(outs) ELSE FirstNonEmpty(Tail(outs))

NonEmptyList(v) == IsList(v) /\ Len(v.l) > 0

\* pick_daily_series(j): [raised, val]. raised: `data.get` on a `data` that is
\* no dict raises AttributeError (j.get("data", {}) returns what the key holds).
pick_daily_series(j) ==
    IF ~IsDict(j) THEN [raised |-> FALSE, val |-> <<>>]
    ELSE IF NonEmptyList(Get(j, "dailyVolume"))
    THEN [raised |-> FALSE, val |-> Get(j, "dailyVolume").l]
    ELSE LET data == GetOr(j, "data", EmptyDict)
         IN  IF ~IsDict(data) THEN [raised |-> TRUE, val |-> <<>>]
             ELSE IF NonEmptyList(Get(data, "dailyVolume"))
             THEN [raised |-> FALSE, val |-> Get(data, "dailyVolume").l]
             ELSE [raised |-> FALSE,
                   val |-> FirstNonEmpty(AliasOuts(j, data, SeriesAliases[1])
                                         \o AliasOuts(j, data, SeriesAliases[2])
                                         \o AliasOuts(j, data, SeriesAliases[3])
                                         \o AliasOuts(j, data, SeriesAliases[4]))]

\* ------------------------------------------------------------ normalization
\* int(v) / float(v) succeed on a number and on a string of digits and raise
\* on anything else modelled here (a non-numeric string, a dict, a list, None).
Coercible(v) == v.t \in {"num", "str"}

NumberOf(v) == v.n

\* ts_to_date_str(ts): the UTC calendar day of unix second ts. A date is held
\* as its day number since 1970-01-01; ISO "YYYY-MM-DD" strings sort
\* (sorted(), dict keys) exactly as these day numbers do.
ts_to_date_str(ts) == ts \div 86400

\* f"{float(x):.6f}" for the integral values modelled here.
Fixed6(n) == ToString(n) \o ".000000"

\* "" if v is None else f"{float(v):.6f}"; [ok |-> FALSE] when float(v) raises.
Cell(v) ==
    IF v = Null THEN [ok |-> TRUE, s |-> ""]
    ELSE IF Coercible(v) THEN [ok |-> TRUE, s |-> Fixed6(NumberOf(v))]
    ELSE [ok |-> FALSE, s |-> ""]

\* The body of the try block of normalize_rows for one item, run at clock
\* reading `clock` (datetime.now() is called inside the row literal, to the
\* second): <<row>> when a row is appended, <<>> when the item is skipped
\* (bad += 1).
RowOf(item, snp, clock) ==
    IF ~IsDict(item) THEN <<>>
    ELSE LET ts  == Get(item, "date")
             vol == Cell(Get(item, "volume"))
             oi  == Cell(Get(item, "openInterest"))
             sc  == [k \in SnapFields |-> Cell(snp[k])]
         IN  IF ts = Null \/ ~Coercible(ts) THEN <<>>
             ELSE IF ~vol.ok \/ ~oi.ok \/ (\E k \in SnapFields : ~sc[k].ok) THEN <<>>
             ELSE <<[date                       |-> ts_to_date_str(NumberOf(ts)),
                     volume_usd                 |-> vol.s,
                     open_interest_usd          |-> oi.s,
                     snapshot_volume_24h        |-> sc["volume24h"].s,
                     snapshot_volume_7d         |-> sc["volume7d"].s,
                     snapshot_volume_30d        |-> sc["volume30d"].s,
                     snapshot_open_interest_now |-> sc["openInterest"].s,
                     snapshot_total_volume      |-> sc["totalVolume"].s,
                     as_of_utc                  |-> clock]>>

RECURSIVE SortedSeq(_)
SortedSeq(S) == IF S = {} THEN <<>> ELSE <<Min(S)>> \o SortedSeq(S \ {Min(S)})

\* Which of the rows of one date the de-dup keeps: last_by_date[r[0]] = r
\* overwrites, so the last one in list order.
KeptIndex(idxs) == Max(idxs)

\* De-dup by date (keep last), then the rows in sorted(date) order.
DedupSort(rs) ==
    LET dates == SortedSeq({rs[n].date : n \in 1..Len(rs)})
    IN  [m \in 1..Len(dates) |->
            rs[KeptIndex({n \in 1..Len(rs) : rs[n].date = dates[m]})]]

\* ------------------------------------------------- build_csv (hl_perps_to_dune)
\* ROLLING_DAYS default
ROLLING_DAYS == 400

\* int(r["date"]) raises on a missing key (KeyError), None (TypeError) and a
\* non-numeric string (ValueError); build_csv has no try around it.
BuildRaises(item) ==
    ~IsDict(item) \/ "date" \notin DOMAIN item.d \/ ~Coercible(item.d["date"])

\* The dict build_csv appends for one record (values are passed through raw).
BuildRow(item, snp, as_of) ==
    [date                       |-> ts_to_date_str(NumberOf(item.d["date"])),
     volume_usd                 |-> Get(item, "volume"),
     open_interest_usd          |-> Get(item, "openInterest"),
     snapshot_volume_24h        |-> snp["volume24h"],
     snapshot_volume_7d         |-> snp["volume7d"],
     snapshot_volume_30d        |-> snp["volume30d"],
     snapshot_open_interest_now |-> snp["openInterest"],
     snapshot_total_volume      |-> snp["totalVolume"],
     as_of_utc                  |-> as_of]

RECURSIVE BuildRows(_, _, _, _)
BuildRows(items, snp, as_of, cutoff) ==
    IF items = <<>> THEN <<>>
    ELSE LET r == BuildRow(Head(items), snp, as_of)
         IN  (IF r.date < cutoff THEN <<>> ELSE <<r>>)
             \o BuildRows(Tail(items), snp, as_of, cutoff)

\* build_csv(daily_rows, snapshot, as_of_utc) at clock reading `clock`:
\* [raised, rows]. It raises when a record's date cannot be coerced, and
\* (rows[0].keys()) when no row is left inside the rolling window.
build_csv(items, snp, as_of, clock) ==
    LET cutoff == ts_to_date_str(clock) - ROLLING_DAYS
    IN  IF \E n \in 1..Len(items) : BuildRaises(items[n])
        THEN [raised |-> TRUE, rows |-> <<>>]
        ELSE LET rs == BuildRows(items, snp, as_of, cutoff)
             IN  [raised |-> rs = <<>>, rows |-> rs]

\* --------------------------------------------------- fetch_overview_snapshot
SLUG == "hyperliquid"

\* str(v).lower().startswith("hyperliquid"), over the names used as inputs.
NameMatches(v) == v.t = "name" /\ v.s \in {"Hyperliquid", "hyperliquid perps"}

\* row.get("slug") == slug or str(row.get("name", "")).lower().startswith(...)
RowMatches(row) ==
    IsDict(row) /\ (Get(row, "slug") = Name(SLUG) \/ NameMatches(Get(row, "name")))

\* fetch_overview_snapshot applied to the decoded overview response `resp`
\* (an object whose "protocols"/"data", when present, is a list): the five
\* counters of the first matching row, {} when no row matches.
overview_snapshot(resp) ==
    LET arr  == Or(Or(Get(resp, "protocols"), Get(resp, "data")), List(<<>>))
        hits == {n \in 1..Len(arr.l) : RowMatches(arr.l[n])}
    IN  IF hits = {} THEN <<>>
        ELSE [k \in SnapFields |-> Get(arr.l[Min(hits)], k)]

\* A faulty merge, for comparison: the overview's value replaces a resolved one.
MergeField_Overrides(cur, v) == IF v # Null THEN v ELSE cur

\* main(): for k, v in ov.items(): if snap.get(k) is None and v is not None:
\* snap[k] = v
MergeField(cur, v) == IF cur = Null /\ v # Null THEN v ELSE cur

MergeOverview(snp, o) ==
    [k \in SnapFields |-> IF k \in DOMAIN o THEN MergeField(snp[k], o[k]) ELSE snp[k]]

\* main(): any(snap.get(k) is None for k in (...the four current counters...))
NeedsOverview(snp) == \E k \in CurrentFields : snp[k] = Null

\* ------------------------------------------------------------ the Dune API
\* A text is the sequence of its words. `sub in text`: sub occurs in text as
\* a run of consecutive words.
Contains(text, sub) ==
    \E k \in 0..(Len(text) - Len(sub)) : SubSeq(text, k + 1, k + Len(sub)) = sub

\* str.lower(), over the words used here.
LowerWord(w) ==
    CASE w = "Table"    -> "table"
      [] w = "Conflict" -> "conflict"
      [] w = "HTTP"     -> "http"
      [] w = "Error"    -> "error"
      [] w = "Dune"     -> "dune"
      [] w = "JSON"     -> "json"
      [] w = "POST"     -> "post"
      [] w = "Unauthorized" -> "unauthorized"
      [] OTHER          -> w

Lower(text) == [n \in 1..Len(text) |-> LowerWord(text[n])]

\* What urlopen does with a POST: a 2xx response (the sink reporting how many
\* rows it wrote), an HTTPError carrying status, reason phrase and response
\* body, or a URLError (no response: DNS, refused connection, timeout).
Ok(n) == [kind |-> "ok", rows_written |-> n]

HttpError(code, reason, body) == [kind |-> "http", code |-> code, reason |-> reason, body |-> body]

UrlError == [kind |-> "url"]

\* str(e) of an HTTPError: "HTTP Error <code>: <reason>"; of a URLError:
\* "<urlopen error ...>".
StrOfError(e) ==
    IF e.kind = "http" THEN <<"HTTP", "Error", e.code>> \o e.reason
    ELSE <<"urlopen", "error">>

\* hl_perps_append_snapshot.dune_post_json: the exception the call ends with
\* ("none": it returns) and the exception's text.
dune_post_json(ans) ==
    CASE ans.kind = "ok"   -> [exc |-> "none", msg |-> <<>>]
      [] ans.kind = "http" -> [exc |-> "SystemExit",
                               msg |-> <<"Dune", "JSON", "POST", "failed:", ans.code>> \o ans.body]
      [] OTHER             -> [exc |-> "URLError", msg |-> StrOfError(ans)]

\* hl_perps_append_snapshot.dune_post_bytes: the response text is returned as
\* it is; only an HTTPError becomes SystemExit.
dune_post_bytes(ans, label) ==
    CASE ans.kind = "ok"   -> [exc |-> "none", msg |-> <<>>]
      [] ans.kind = "http" -> [exc |-> "SystemExit",
                               msg |-> <<"Dune", label, "insert", "failed:", ans.code>> \o ans.body]
      [] OTHER             -> [exc |-> "URLError", msg |-> StrOfError(ans)]

\* hl_perps_append_snapshot.ensure_table: TRUE when it returns, FALSE when the
\* exception leaves it.
ensure_table(ans) ==
    LET r == dune_post_json(ans)
    IN  \/ r.exc = "none"
        \/ /\ r.exc = "SystemExit"
           /\ ~(/\ ~Contains(Lower(r.msg), <<"already", "exists">>)
                /\ ~Contains(Lower(r.msg), <<"already", "existed">>))

\* hl_perps_backfill_from_csv_ci.dune_post: urlopen's exception as it is.
dune_post(ans) ==
    CASE ans.kind = "ok"   -> [exc |-> "none", msg |-> <<>>]
      [] ans.kind = "http" -> [exc |-> "HTTPError", msg |-> StrOfError(ans)]
      [] OTHER             -> [exc |-> "URLError", msg |-> StrOfError(ans)]

\* hl_perps_backfill_from_csv_ci.ensure_table: TRUE when it returns.
backfill_ensure_table(ans) ==
    LET r == dune_post(ans)
    IN  r.exc = "none" \/ Contains(Lower(r.msg), <<"already", "exists">>)

\* The rows the sink stores: as many of `rs` as it reports written.
Written(rs, ans) == SubSeq(rs, 1, Min({Len(rs), ans.rows_written}))

\* hl_perps_append_snapshot.get_snapshot_row applied to the decoded overview
\* response: <<>> when no row matches (sys.exit), else the row, a missing
\* counter being 0.0.
SnapshotFloat(v) == IF v = Null THEN 0 ELSE NumberOf(v)

get_snapshot_row(resp, clock) ==
    LET arr  == Or(Or(Get(resp, "protocols"), Get(resp, "data")), List(<<>>))
        hits == {n \in 1..Len(arr.l) : RowMatches(arr.l[n])}
        r    == arr.l[Min(hits)]
    IN  IF hits = {} THEN <<>>
        ELSE <<[date                      |-> ts_to_date_str(clock),
                volume24h_usd             |-> SnapshotFloat(Get(r, "volume24h")),
                volume7d_usd              |-> SnapshotFloat(Get(r, "volume7d")),
                volume30d_usd             |-> SnapshotFloat(Get(r, "volume30d")),
                open_interest_usd         |-> SnapshotFloat(Get(r, "openInterest")),
                total_volume_lifetime_usd |-> SnapshotFloat(Get(r, "totalVolume")),
                as_of_utc                 |-> clock]>>

\* ------------------------------------------------------------------ inputs
\* Marks a key left out of a generated dict.
Absent == [t |-> "absent"]

\* The dict holding the keys of f whose value is not Absent.
Prune(f) == Dict([k \in {x \in DOMAIN f : f[x] # Absent} |-> f[k]])

Point(d, v, o) == Prune([date |-> d, volume |-> v, openInterest |-> o])

\* Daily points handed to normalize_rows and build_csv: dates missing,
\* non-numeric, on day 0 (two different seconds) and on day 1; volumes and
\* open interests missing, zero, positive and non-numeric; one item that is
\* no dict.
PointSet ==
    {Point(d, v, Absent) : d \in {Absent, Text, Num(0), Num(86399), Num(86400)},
                           v \in {Absent, Num(0), Num(5), Text}}
    \cup {Point(Num(0), Absent, o) : o \in {Num(0), Num(7), Text}}
    \cup {List(<<Num(0), Num(5)>>)}

SeriesUpTo(n) == UNION {[1..m -> PointSet] : m \in 0..n}

SnapInputs ==
    {NoSnapshot,
     [NoSnapshot EXCEPT !["volume24h"] = Num(0), !["volume7d"] = Str(50)],
     [NoSnapshot EXCEPT !["totalVolume"] = Text]}

\* Payloads handed to pick_snapshot: counters under their first and third
\* alias at the root, under `data` (also a `data` that is no dict) and under
\* `summary`, holding null, 0 and positive values.
SnapPayloads ==
    {Prune([volume24h |-> a, vol24h |-> b, openInterest |-> c, data |-> d, summary |-> e]) :
        a \in {Absent, Null, Num(0), Num(5)},
        b \in {Absent, Num(0), Num(6)},
        c \in {Absent, Num(0), Num(5)},
        d \in {Absent, Num(1)}
              \cup {Prune([volume24h |-> x, openInterest |-> y]) :
                      x \in {Absent, Num(0), Num(7)}, y \in {Absent, Num(0), Num(7)}},
        e \in {Absent, Dict([volume24h |-> Num(9)]), Dict([vol24h |-> Null])}}
    \cup {List(<<>>)}

\* What the summary endpoint answers to two overlapping runs: a complete
\* snapshot, an incomplete one, and two values of the volume of day 0.
TwoRunPayloads ==
    {Prune([volume24h |-> a, volume7d |-> Num(50), volume30d |-> Num(50),
            openInterest |-> Num(50),
            dailyVolume |-> List(<<Point(Num(0), v, Num(7))>>)]) :
        a \in {Absent, Num(50)}, v \in {Num(5), Num(6)}}

\* The (dailyVolume, daily) parts of the payloads the whole script is run on.
SeriesChoices ==
    {<<Absent, Absent>>,
     <<List(<<Point(Num(0), Num(5), Num(7))>>), Absent>>,
     <<List(<<Point(Num(0), Num(0), Absent), Point(Num(86400), Text, Absent)>>), Absent>>,
     <<List(<<Point(Num(0), Num(5), Absent), Point(Num(1), Str(6), Absent)>>), Absent>>,
     <<Absent, List(<<Dict([timestamp |-> Num(86400), volume |-> Num(0)])>>)>>,
     <<List(<<>>), List(<<List(<<Num(86400), Num(5)>>)>>)>>}

\* Payloads the source endpoints answer with.
MainPayloads ==
    {Prune([volume24h |-> a, volume7d |-> b, volume30d |-> c, openInterest |-> c,
            totalVolume |-> b, data |-> e, dailyVolume |-> sc[1], daily |-> sc[2]]) :
        a \in {Absent, Num(0), Num(50)},
        b \in {Absent, Num(50)},
        c \in {Absent, Num(50)},
        e \in {Absent, Null, EmptyDict, Dict([volume24h |-> Num(7)])},
        sc \in SeriesChoices}
    \cup {List(<<>>), Dict([totalVolume |-> Text])}

\* Rows of the overview response that match the slug, and one that matches
\* by name prefix, and one of another protocol.
OverviewRows ==
    {Prune([slug |-> Name(SLUG), volume24h |-> a, volume7d |-> b, volume30d |-> c,
            openInterest |-> c, totalVolume |-> c]) :
        a \in {Null, Num(123)}, b \in {Null, Num(123)}, c \in {Absent, Num(123)}}
    \cup {Dict([name |-> Name("hyperliquid perps"), volume24h |-> Num(123)])}

OtherRow == Dict([slug |-> Name("dydx"), name |-> Name("dYdX"), volume24h |-> Num(1)])

OverviewResponses ==
    {Dict([protocols |-> List(<<OtherRow, r>>)]) : r \in OverviewRows}
    \cup {EmptyDict,
          Dict([protocols |-> List(<<OtherRow, Num(3)>>)]),
          Dict([protocols |-> List(<<>>),
                data |-> List(<<Dict([slug |-> Name(SLUG), volume7d |-> Num(124)])>>)])}

\* What the sink answers to table/create: created; the error it returns for
\* an existing table; another failure; no answer.
AlreadyExists == HttpError("409", <<"Conflict">>, <<"Table", "already", "exists">>)

CreateAnswers ==
    {Ok(0), AlreadyExists,
     HttpError("401", <<"Unauthorized">>, <<"invalid", "API", "key">>),
     UrlError}

\* What the sink answers to an insert or an upload: rows written; a 2xx
\* response reporting no row written; a rejection; no answer.
InsertAnswers ==
    {Ok(1), Ok(0), HttpError("400", <<"Bad", "Request">>, <<"invalid", "payload">>), UrlError}

\* The {date: value} series extract_series reads from one CSV file.
CsvSeries == {<<>>, <<Num(5)>>, <<Null, Num(7)>>}

\* The Hyperliquid row of a leaderboard CSV.
LeaderboardRows == {[v24 |-> a, v7 |-> 50, v30 |-> 50, oi |-> 7] : a \in {0, 5}}

\* hl_perps_snapshot_to_dune.shape_csv: the one row of the shaped CSV.
shape_csv(r, clock) ==
    <<[date |-> ts_to_date_str(clock), volume_usd |-> "", open_interest_usd |-> "",
       snapshot_volume_24h |-> r.v24, snapshot_volume_7d |-> r.v7,
       snapshot_volume_30d |-> r.v30, snapshot_open_interest_now |-> r.oi,
       snapshot_total_volume |-> "", as_of_utc |-> clock]>>

\* hl_perps_backfill_from_csv_ci.main: the merged rows of the two series, a
\* series being indexed by its dates 1..Len; float(vol.get(d) or 0).
SeriesFloat(ser, d) == IF d \in DOMAIN ser THEN Or(ser[d], Num(0)).n ELSE 0

MergedRows(vol, oi, clock) ==
    [d \in 1..Max({Len(vol), Len(oi)}) |->
        [date |-> d, volume_usd |-> SeriesFloat(vol, d),
         open_interest_usd |-> SeriesFloat(oi, d), as_of_utc |-> clock]]

\* ------------------------------------------------------------------- state
VARIABLES
    prog,       \* the entry point this behaviour runs
    runs,       \* two overlapping runs of main(): each run's position and locals
    pc,         \* where the run stands
    idx,        \* fetch_first_json: index into URLS of the next candidate
    requested,  \* the candidates requested so far (urlopen calls), in order
    decoded,    \* the candidates whose response was fetched and decoded
    logged,     \* the errors written to the log (log(f"Error: {e}")), in order
    last,       \* fetch_first_json: the local `last`
    debugFile,  \* content of DEBUG_JSON
    j,          \* the decoded payload
    daily,      \* main: daily
    snap,       \* main: snap
    ov,         \* main: ov, the overview fallback's answer
    ovCalls,    \* number of requests made to OVERVIEW_URL
    i,          \* normalize_rows: position of the loop over daily
    rows,       \* normalize_rows: rows
    bad,        \* normalize_rows: bad
    out,        \* the rows normalize_rows / build_csv returned
    now,        \* the wall clock, in seconds
    ticks,      \* seconds elapsed since the run started
    outCsv,     \* content of OUT_CSV (the rows under the header)
    apiKey,     \* whether DUNE_API_KEY is set
    sinkCalls,  \* number of requests made to DUNE_UPLOAD_URL
    table,      \* rows of the Dune table
    sinkLog,    \* the requests made to the Dune API and their answers, in order
    status,     \* "running", "exit0", "exit1"
    reported    \* the errors the fatal message (SystemExit text) carries

fetchVars == <<idx, requested, decoded, logged, last, debugFile, j>>

resolveVars == <<daily, snap, ov, ovCalls>>

normVars == <<i, rows, bad, out>>

clockVars == <<now, ticks>>

sinkVars == <<outCsv, sinkCalls, table, sinkLog>>

vars == <<prog, runs, pc, fetchVars, resolveVars, normVars, clockVars, sinkVars, apiKey,
          status, reported>>

\* URLS: the summary endpoint, then the overview endpoint.
URLS == <<"summary/derivatives/hyperliquid", "overview/derivatives?protocol=hyperliquid">>

\* What makes urlopen / json.loads raise inside the try block.
FetchErrors == {"network", "status", "decode"}

NoFile == List(<<>>)

NoError == [url |-> 0, kind |-> "none"]

\* What every run starts from, whatever its entry point and inputs.
Blank ==
    /\ idx = 1 /\ requested = <<>> /\ decoded = <<>> /\ logged = <<>> /\ last = NoError
    /\ debugFile = NoFile
    /\ ov = <<>> /\ ovCalls = 0
    /\ i = 1 /\ rows = <<>> /\ bad = 0 /\ out = <<>>
    /\ ticks = 0
    /\ outCsv = <<>> /\ sinkCalls = 0 /\ table = <<>> /\ sinkLog = <<>>
    /\ status = "running" /\ reported = {}
    /\ runs = <<>>

\* The clock starts one second before a UTC midnight.
InitMain ==
    /\ prog = "main" /\ pc = "fetch" /\ Blank
    /\ j = Null /\ daily = <<>> /\ snap = NoSnapshot
    /\ now = 86399 /\ apiKey \in BOOLEAN

InitPickSnapshot ==
    /\ prog = "pick_snapshot" /\ pc = "pick_snapshot" /\ Blank
    /\ j \in SnapPayloads /\ daily = <<>> /\ snap = NoSnapshot
    /\ now = 86399 /\ apiKey = TRUE

InitNormalize ==
    /\ prog = "normalize_rows" /\ pc = "normalize" /\ Blank
    /\ j = Null /\ daily \in SeriesUpTo(MaxLen) /\ snap \in SnapInputs
    /\ now = 86399 /\ apiKey = TRUE

\* build_csv is run on day 0 and more than ROLLING_DAYS later, so that the
\* rolling window both keeps and drops the days of PointSet.
InitBuildCsv ==
    /\ prog = "build_csv" /\ pc = "build_csv" /\ Blank
    /\ j = Null /\ daily \in SeriesUpTo(MaxLen) /\ snap \in SnapInputs
    /\ now \in {86399, 402 * 86400} /\ apiKey = TRUE

\* Two runs of hyperliquid_perps_to_dune.py started on one checkout: DATA_DIR,
\* hence OUT_CSV and DEBUG_JSON, and the Dune table are the same for both.
Runs == {1, 2}

InitTwoRuns ==
    /\ prog = "two_runs" /\ pc = "runs"
    /\ runs = [r \in Runs |-> [pc |-> "fetch", j |-> Null, out |-> <<>>, sent |-> <<>>]]
    /\ idx = 1 /\ requested = <<>> /\ decoded = <<>> /\ logged = <<>> /\ last = NoError
    /\ debugFile = NoFile /\ j = Null
    /\ daily = <<>> /\ snap = NoSnapshot /\ ov = <<>> /\ ovCalls = 0
    /\ i = 1 /\ rows = <<>> /\ bad = 0 /\ out = <<>>
    /\ now = 86399 /\ ticks = 0 /\ apiKey = TRUE
    /\ outCsv = <<>> /\ sinkCalls = 0 /\ table = <<>> /\ sinkLog = <<>>
    /\ status = "running" /\ reported = {}

\* hl_perps_append_snapshot.py, hl_perps_backfill_from_csv_ci.py and
\* hl_perps_snapshot_to_dune.py read DUNE_API_KEY from os.environ at import:
\* main() runs with the key set.
InitAppendSnapshot ==
    /\ prog = "append_snapshot" /\ pc = "ensure_table" /\ Blank
    /\ j = Null /\ daily = <<>> /\ snap = NoSnapshot
    /\ now = 86399 /\ apiKey = TRUE

InitBackfill ==
    /\ prog = "backfill" /\ pc = "ensure_table" /\ Blank
    /\ j = Null /\ daily = <<>> /\ snap = NoSnapshot
    /\ now = 86399 /\ apiKey = TRUE

InitSnapshotToDune ==
    /\ prog = "snapshot_to_dune" /\ pc = "page" /\ Blank
    /\ j = Null /\ daily = <<>> /\ snap = NoSnapshot
    /\ now = 86399 /\ apiKey = TRUE

Init ==
    \/ InitMain \/ InitPickSnapshot \/ InitNormalize \/ InitBuildCsv
    \/ InitAppendSnapshot \/ InitBackfill \/ InitSnapshotToDune
    \/ InitTwoRuns

\* ----------------------------------------------------------------- actions
\* The run ends with a non-zero exit status (SystemExit with a message, or an
\* exception nothing catches); errs: the source errors the message carries.
Die(errs) == pc' = "failed" /\ status' = "exit1" /\ reported' = errs

\* except Exception as e: last = e; log(f"Error: {e}") -- the next candidate
\* is tried.
Caught(e) ==
    /\ last' = e /\ logged' = Append(logged, e) /\ idx' = idx + 1
    /\ UNCHANGED <<pc, status, reported>>

\* One iteration of the loop of fetch_first_json over candidate URLS[idx].
FetchFails ==
    /\ pc = "fetch" /\ idx <= Len(URLS)
    /\ requested' = Append(requested, idx)
    /\ \E kind \in FetchErrors : Caught([url |-> idx, kind |-> kind])
    /\ UNCHANGED <<prog, runs, decoded, debugFile, j, resolveVars, normVars, clockVars,
                   sinkVars, apiKey>>

\* The response is read and decoded and the debug copy is written: return j.
FetchReturns ==
    /\ pc = "fetch" /\ idx <= Len(URLS)
    /\ requested' = Append(requested, idx)
    /\ decoded' = Append(decoded, idx)
    /\ \E p \in MainPayloads : j' = p /\ debugFile' = p
    /\ pc' = "resolve"
    /\ UNCHANGED <<prog, runs, idx, logged, last, resolveVars, normVars, clockVars,
                   sinkVars, apiKey, status, reported>>

\* The response is read and decoded, and DEBUG_JSON.write_text raises (inside
\* the same try block).
FetchDebugWriteFails ==
    /\ pc = "fetch" /\ idx <= Len(URLS)
    /\ requested' = Append(requested, idx)
    /\ decoded' = Append(decoded, idx)
    /\ Caught([url |-> idx, kind |-> "debug_write"])
    /\ UNCHANGED <<prog, runs, debugFile, j, resolveVars, normVars, clockVars,
                   sinkVars, apiKey>>

\* The loop ran out of candidates: raise SystemExit(f"... {last}"), the
\* message naming `last` alone.
FetchExhausted ==
    /\ pc = "fetch" /\ idx > Len(URLS)
    /\ Die({last})
    /\ UNCHANGED <<prog, runs, fetchVars, resolveVars, normVars, clockVars, sinkVars, apiKey>>

\* daily = pick_daily_series(j); snap = pick_snapshot(j)
Resolve ==
    /\ pc = "resolve"
    /\ LET r == pick_daily_series(j)
       IN  IF r.raised
           THEN Die({}) /\ UNCHANGED <<daily, snap>>
           ELSE /\ daily' = r.val /\ snap' = pick_snapshot(j)
                /\ pc' = "fallback" /\ UNCHANGED <<status, reported>>
    /\ UNCHANGED <<prog, runs, fetchVars, ov, ovCalls, normVars, clockVars, sinkVars, apiKey>>

\* The snapshot is complete: the overview is not asked.
FallbackSkipped ==
    /\ pc = "fallback" /\ ~NeedsOverview(snap)
    /\ pc' = "synthesize"
    /\ UNCHANGED <<prog, runs, fetchVars, resolveVars, normVars, clockVars, sinkVars,
                   apiKey, status, reported>>

\* ov = fetch_overview_snapshot(SLUG) or {}, merged into snap.
FallbackMerged ==
    /\ pc = "fallback" /\ NeedsOverview(snap)
    /\ ovCalls' = ovCalls + 1
    /\ \E resp \in OverviewResponses :
          /\ ov' = overview_snapshot(resp)
          /\ snap' = MergeOverview(snap, ov')
    /\ pc' = "synthesize"
    /\ UNCHANGED <<prog, runs, fetchVars, daily, normVars, clockVars, sinkVars,
                   apiKey, status, reported>>

\* The overview request or its decoding raises; nothing catches it.
FallbackRaises ==
    /\ pc = "fallback" /\ NeedsOverview(snap)
    /\ ovCalls' = ovCalls + 1
    /\ Die({})
    /\ UNCHANGED <<prog, runs, fetchVars, daily, snap, ov, normVars, clockVars, sinkVars, apiKey>>

\* if not daily: daily = [{"date": now_ts, "volume": None, "openInterest": None}]
Synthesize ==
    /\ pc = "synthesize"
    /\ daily' = IF daily = <<>>
                THEN <<Dict([date |-> Num(now), volume |-> Null, openInterest |-> Null])>>
                ELSE daily
    /\ pc' = "normalize"
    /\ UNCHANGED <<prog, runs, fetchVars, snap, ov, ovCalls, normVars, clockVars, sinkVars,
                   apiKey, status, reported>>

\* One iteration of the loop of normalize_rows over daily.
NormalizeStep ==
    /\ pc = "normalize" /\ i <= Len(daily)
    /\ LET r == RowOf(daily[i], snap, now)
       IN  /\ rows' = rows \o r
           /\ bad' = IF r = <<>> THEN bad + 1 ELSE bad
    /\ i' = i + 1
    /\ UNCHANGED <<prog, runs, pc, fetchVars, resolveVars, out, clockVars, sinkVars,
                   apiKey, status, reported>>

\* The loop is over: de-dup by date and return the rows sorted by date.
NormalizeReturn ==
    /\ pc = "normalize" /\ i > Len(daily)
    /\ out' = DedupSort(rows)
    /\ pc' = IF prog = "main" THEN "write_csv" ELSE "done"
    /\ status' = IF prog = "main" THEN status ELSE "exit0"
    /\ UNCHANGED <<prog, runs, fetchVars, resolveVars, i, rows, bad, clockVars, sinkVars,
                   apiKey, reported>>

\* write_csv(rows)
WriteCsv ==
    /\ pc = "write_csv"
    /\ outCsv' = out
    /\ pc' = "upload"
    /\ UNCHANGED <<prog, runs, fetchVars, resolveVars, normVars, clockVars, sinkCalls, table,
                   sinkLog, apiKey, status, reported>>

\* upload_to_dune: SystemExit when DUNE_API_KEY is missing.
UploadNoKey ==
    /\ pc = "upload" /\ ~apiKey
    /\ Die({})
    /\ UNCHANGED <<prog, runs, fetchVars, resolveVars, normVars, clockVars, sinkVars, apiKey>>

\* upload_to_dune: the POST succeeds and the table is overwritten by the file.
UploadOk ==
    /\ pc = "upload" /\ apiKey
    /\ sinkCalls' = sinkCalls + 1
    /\ sinkLog' = Append(sinkLog, [op |-> "upload", ans |-> Ok(Len(outCsv))])
    /\ table' = outCsv
    /\ pc' = "done" /\ status' = "exit0"
    /\ UNCHANGED <<prog, runs, fetchVars, resolveVars, normVars, clockVars, outCsv, apiKey,
                   reported>>

\* upload_to_dune: HTTPError or URLError, turned into SystemExit.
UploadRejected ==
    /\ pc = "upload" /\ apiKey
    /\ sinkCalls' = sinkCalls + 1
    /\ \E ans \in InsertAnswers \ {Ok(0), Ok(1)} :
          sinkLog' = Append(sinkLog, [op |-> "upload", ans |-> ans])
    /\ Die({})
    /\ UNCHANGED <<prog, runs, fetchVars, resolveVars, normVars, clockVars, outCsv, table, apiKey>>

\* A second passes. The clock is read by Synthesize and by each iteration of
\* normalize_rows' loop; seconds that pass elsewhere are not observed.
Tick ==
    /\ pc \in {"synthesize", "normalize"} /\ ticks < MaxTicks
    /\ now' = now + 1 /\ ticks' = ticks + 1
    /\ UNCHANGED <<prog, runs, pc, fetchVars, resolveVars, normVars, sinkVars, apiKey,
                   status, reported>>

\* pick_snapshot applied to j.
ApplyPickSnapshot ==
    /\ pc = "pick_snapshot"
    /\ snap' = pick_snapshot(j)
    /\ pc' = "done" /\ status' = "exit0"
    /\ UNCHANGED <<prog, runs, fetchVars, daily, ov, ovCalls, normVars, clockVars, sinkVars,
                   apiKey, reported>>

\* build_csv(daily, snap, as_of_utc); an exception ends the script with
\* sys.exit(1).
ApplyBuildCsv ==
    /\ pc = "build_csv"
    /\ LET r == build_csv(daily, snap, now, now)
       IN  IF r.raised
           THEN Die({}) /\ out' = out
           ELSE out' = r.rows /\ pc' = "done" /\ status' = "exit0" /\ reported' = reported
    /\ UNCHANGED <<prog, runs, fetchVars, resolveVars, i, rows, bad, clockVars, sinkVars, apiKey>>

\* ------------------------------------------- hl_perps_append_snapshot.main
\* An error of the source side: the request that failed and how.
SourceError(kind) == [url |-> 0, kind |-> kind]

\* 1) ensure_table()
AppendEnsureTable ==
    /\ prog = "append_snapshot" /\ pc = "ensure_table"
    /\ \E ans \in CreateAnswers :
          /\ sinkLog' = Append(sinkLog, [op |-> "create", ans |-> ans])
          /\ IF ensure_table(ans)
             THEN pc' = "get_snapshot_row" /\ UNCHANGED <<status, reported>>
             ELSE Die({ans})
    /\ UNCHANGED <<prog, runs, fetchVars, resolveVars, normVars, clockVars, outCsv, sinkCalls,
                   table, apiKey>>

\* 2) row = get_snapshot_row(); sys.exit when Hyperliquid is not in the
\* overview.
AppendGetSnapshotRow ==
    /\ prog = "append_snapshot" /\ pc = "get_snapshot_row"
    /\ \E resp \in OverviewResponses :
          /\ j' = resp
          /\ out' = get_snapshot_row(resp, now)
          /\ IF out' = <<>>
             THEN Die({SourceError("not_found")})
             ELSE pc' = "insert_ndjson" /\ UNCHANGED <<status, reported>>
    /\ UNCHANGED <<prog, runs, idx, requested, decoded, logged, last, debugFile, resolveVars,
                   i, rows, bad, clockVars, sinkVars, apiKey>>

\* http_json raises (network, status, decode); nothing catches it.
AppendGetSnapshotRowRaises ==
    /\ prog = "append_snapshot" /\ pc = "get_snapshot_row"
    /\ Die({SourceError("network")})
    /\ UNCHANGED <<prog, runs, fetchVars, resolveVars, normVars, clockVars, sinkVars, apiKey>>

\* 3) the NDJSON insert: `return` on a response, the CSV insert next on
\* SystemExit; any other exception leaves main.
AppendInsertNdjson ==
    /\ prog = "append_snapshot" /\ pc = "insert_ndjson"
    /\ \E ans \in InsertAnswers :
          /\ sinkLog' = Append(sinkLog, [op |-> "insert_ndjson", ans |-> ans])
          /\ LET r == dune_post_bytes(ans, "NDJSON")
             IN  CASE r.exc = "none" ->
                        /\ table' = table \o Written(out, ans)
                        /\ pc' = "done" /\ status' = "exit0" /\ reported' = reported
                   [] r.exc = "SystemExit" ->
                        /\ pc' = "insert_csv" /\ UNCHANGED <<table, status, reported>>
                   [] OTHER -> Die({ans}) /\ table' = table
    /\ UNCHANGED <<prog, runs, fetchVars, resolveVars, normVars, clockVars, outCsv, sinkCalls,
                   apiKey>>

\* The CSV insert; SystemExit and every other exception leave main.
AppendInsertCsv ==
    /\ prog = "append_snapshot" /\ pc = "insert_csv"
    /\ \E ans \in InsertAnswers :
          /\ sinkLog' = Append(sinkLog, [op |-> "insert_csv", ans |-> ans])
          /\ IF dune_post_bytes(ans, "CSV").exc = "none"
             THEN /\ table' = table \o Written(out, ans)
                  /\ pc' = "done" /\ status' = "exit0" /\ reported' = reported
             ELSE Die({ans}) /\ table' = table
    /\ UNCHANGED <<prog, runs, fetchVars, resolveVars, normVars, clockVars, outCsv, sinkCalls,
                   apiKey>>

\* ------------------------------------- hl_perps_backfill_from_csv_ci.main
\* ensure_table()
BackfillEnsureTable ==
    /\ prog = "backfill" /\ pc = "ensure_table"
    /\ \E ans \in CreateAnswers :
          /\ sinkLog' = Append(sinkLog, [op |-> "create", ans |-> ans])
          /\ IF backfill_ensure_table(ans)
             THEN pc' = "merge" /\ UNCHANGED <<status, reported>>
             ELSE Die({ans})
    /\ UNCHANGED <<prog, runs, fetchVars, resolveVars, normVars, clockVars, outCsv, sinkCalls,
                   table, apiKey>>

\* parse_csv, extract_series and the merge loop; SystemExit("no merged rows")
\* when both series are empty.
BackfillMerge ==
    /\ prog = "backfill" /\ pc = "merge"
    /\ \E vol \in CsvSeries, oi \in CsvSeries :
          /\ out' = MergedRows(vol, oi, now)
          /\ IF out' = <<>>
             THEN Die({SourceError("no_rows")})
             ELSE pc' = "insert" /\ UNCHANGED <<status, reported>>
    /\ UNCHANGED <<prog, runs, fetchVars, resolveVars, i, rows, bad, clockVars, sinkVars, apiKey>>

\* parse_csv: SystemExit(f"missing CSV: {path}")
BackfillMissingCsv ==
    /\ prog = "backfill" /\ pc = "merge"
    /\ Die({SourceError("missing_csv")})
    /\ UNCHANGED <<prog, runs, fetchVars, resolveVars, normVars, clockVars, sinkVars, apiKey>>

\* batch_insert(data): one batch (at most 500 rows); an exception of
\* dune_post leaves main.
BackfillInsert ==
    /\ prog = "backfill" /\ pc = "insert"
    /\ \E ans \in {Ok(Len(out))} \cup (InsertAnswers \ {Ok(0), Ok(1)}) :
          /\ sinkLog' = Append(sinkLog, [op |-> "insert", ans |-> ans])
          /\ IF dune_post(ans).exc = "none"
             THEN /\ table' = table \o Written(out, ans)
                  /\ pc' = "done" /\ status' = "exit0" /\ reported' = reported
             ELSE Die({ans}) /\ table' = table
    /\ UNCHANGED <<prog, runs, fetchVars, resolveVars, normVars, clockVars, outCsv, sinkCalls,
                   apiKey>>

\* ------------------------------------------ hl_perps_snapshot_to_dune.main
\* pages = [PERPS_PAGE, OI_PAGE]
PAGES == <<"protocols/derivatives", "open-interest">>

\* One iteration of the loop over pages in which get_csv_url_from_page,
\* download_csv or shape_csv raises: last_err = e, the next page is tried.
SnapshotPageFails ==
    /\ prog = "snapshot_to_dune" /\ pc = "page" /\ idx <= Len(PAGES)
    /\ \E kind \in {"network", "no_csv_link", "not_found"} :
          last' = [url |-> idx, kind |-> kind]
    /\ idx' = idx + 1
    /\ UNCHANGED <<prog, runs, pc, requested, decoded, logged, debugFile, j, resolveVars,
                   normVars, clockVars, sinkVars, apiKey, status, reported>>

\* One iteration in which the CSV is found, downloaded and shaped, and
\* upload_csv_to_dune runs: `return` on status 200, else its exception is
\* caught like the others and the next page is tried.
SnapshotPageUploads ==
    /\ prog = "snapshot_to_dune" /\ pc = "page" /\ idx <= Len(PAGES)
    /\ \E r \in LeaderboardRows : out' = shape_csv(r, now)
    /\ sinkCalls' = sinkCalls + 1
    /\ \E ans \in InsertAnswers :
          /\ sinkLog' = Append(sinkLog, [op |-> "upload", ans |-> ans])
          /\ IF ans.kind = "ok"
             THEN /\ table' = Written(out', ans)
                  /\ pc' = "done" /\ status' = "exit0"
                  /\ UNCHANGED <<idx, last>>
             ELSE /\ last' = [url |-> idx, kind |-> "upload"]
                  /\ idx' = idx + 1
                  /\ UNCHANGED <<pc, table, status>>
    /\ UNCHANGED <<prog, runs, requested, decoded, logged, debugFile, j, resolveVars,
                   i, rows, bad, clockVars, outCsv, apiKey, reported>>

\* raise last_err
SnapshotExhausted ==
    /\ prog = "snapshot_to_dune" /\ pc = "page" /\ idx > Len(PAGES)
    /\ Die({last})
    /\ UNCHANGED <<prog, runs, fetchVars, resolveVars, normVars, clockVars, sinkVars, apiKey>>

\* --------------------------------------------- two overlapping runs of main
\* normalize_rows(daily, snap), every row stamped at `clock`.
RECURSIVE NormalizeLoop(_, _, _)
NormalizeLoop(items, snp, clock) ==
    IF items = <<>> THEN <<>>
    ELSE RowOf(Head(items), snp, clock) \o NormalizeLoop(Tail(items), snp, clock)

normalize_rows(items, snp, clock) == DedupSort(NormalizeLoop(items, snp, clock))

\* Run r moves to position p with its locals changed as in `upd`.
RunStep(r, p, upd) == runs' = [runs EXCEPT ![r] = [upd EXCEPT !.pc = p]]

\* j = fetch_first_json(URLS): a payload is fetched and the debug copy
\* written, or the run ends with SystemExit.
TwoRunsFetch ==
    /\ prog = "two_runs"
    /\ \E r \in Runs :
          /\ runs[r].pc = "fetch"
          /\ \/ \E p \in TwoRunPayloads :
                   /\ RunStep(r, "normalize", [runs[r] EXCEPT !.j = p])
                   /\ debugFile' = p
             \/ RunStep(r, "failed", runs[r]) /\ debugFile' = debugFile
    /\ UNCHANGED <<prog, pc, idx, requested, decoded, logged, last, j, resolveVars,
                   normVars, clockVars, sinkVars, apiKey, status, reported>>

\* main() from pick_daily_series to normalize_rows, overview fallback and
\* placeholder included.
TwoRunsNormalize ==
    /\ prog = "two_runs"
    /\ \E r \in Runs :
          /\ runs[r].pc = "normalize"
          /\ LET d   == pick_daily_series(runs[r].j)
                 snp == pick_snapshot(runs[r].j)
                 dl  == IF d.val = <<>>
                        THEN <<Dict([date |-> Num(now), volume |-> Null,
                                     openInterest |-> Null])>>
                        ELSE d.val
             IN  IF d.raised THEN RunStep(r, "failed", runs[r])
                 ELSE IF NeedsOverview(snp)
                 THEN \E resp \in OverviewResponses :
                         RunStep(r, "write_csv",
                                 [runs[r] EXCEPT !.out = normalize_rows(dl,
                                     MergeOverview(snp, overview_snapshot(resp)), now)])
                 ELSE RunStep(r, "write_csv",
                              [runs[r] EXCEPT !.out = normalize_rows(dl, snp, now)])
    /\ UNCHANGED <<prog, pc, fetchVars, resolveVars, normVars, clockVars, sinkVars,
                   apiKey, status, reported>>

\* write_csv(rows): OUT_CSV is overwritten.
TwoRunsWriteCsv ==
    /\ prog = "two_runs"
    /\ \E r \in Runs :
          /\ runs[r].pc = "write_csv"
          /\ outCsv' = runs[r].out
          /\ RunStep(r, "upload", runs[r])
    /\ UNCHANGED <<prog, pc, fetchVars, resolveVars, normVars, clockVars, sinkCalls,
                   table, sinkLog, apiKey, status, reported>>

\* upload_to_dune(OUT_CSV): the file is read and posted; the table is
\* overwritten by what was read, or the upload is rejected.
TwoRunsUpload ==
    /\ prog = "two_runs"
    /\ \E r \in Runs :
          /\ runs[r].pc = "upload"
          /\ sinkCalls' = sinkCalls + 1
          /\ \/ /\ sinkLog' = Append(sinkLog, [op |-> "upload", ans |-> Ok(Len(outCsv))])
                /\ table' = outCsv
                /\ RunStep(r, "done", [runs[r] EXCEPT !.sent = Append(@, outCsv)])
             \/ /\ sinkLog' = Append(sinkLog, [op |-> "upload", ans |-> UrlError])
                /\ table' = table
                /\ RunStep(r, "failed", runs[r])
    /\ UNCHANGED <<prog, pc, fetchVars, resolveVars, normVars, clockVars, outCsv,
                   apiKey, status, reported>>

Next ==
    \/ FetchFails \/ FetchReturns \/ FetchDebugWriteFails \/ FetchExhausted
    \/ Resolve \/ FallbackSkipped \/ FallbackMerged \/ FallbackRaises
    \/ Synthesize \/ NormalizeStep \/ NormalizeReturn \/ Tick
    \/ WriteCsv \/ UploadNoKey \/ UploadOk \/ UploadRejected
    \/ ApplyPickSnapshot \/ ApplyBuildCsv
    \/ AppendEnsureTable \/ AppendGetSnapshotRow \/ AppendGetSnapshotRowRaises
    \/ AppendInsertNdjson \/ AppendInsertCsv
    \/ BackfillEnsureTable \/ BackfillMerge \/ BackfillMissingCsv \/ BackfillInsert
    \/ SnapshotPageFails \/ SnapshotPageUploads \/ SnapshotExhausted
    \/ TwoRunsFetch \/ TwoRunsNormalize \/ TwoRunsWriteCsv \/ TwoRunsUpload

Spec == Init /\ [][Next]_vars

\* ------------------------------------------------------------------ claims
\* The run is past fetch_first_json and the resolution of the payload.
Resolved == prog = "main" /\ j # Null /\ pc \notin {"fetch", "resolve"}
            /\ ~pick_daily_series(j).raised

\* The run is past the overview fallback of main().
PastFallback == Resolved /\ pc # "fallback"

\* C1: fetch_first_json requests the candidates in list order, requests none
\* after the first one that was fetched and decoded, and requests a candidate
\* only after every earlier one failed with a network, status or decode
\* error.
C1_FirstSuccessWins ==
    /\ \A n \in 1..Len(requested) : requested[n] = n
    /\ decoded # <<>> => Len(requested) = decoded[1]
    /\ \A n \in 1..Len(requested) - 1 : logged[n].kind \in FetchErrors

\* C2: when every candidate failed, the fatal message carries the error of
\* every attempted candidate.
C2_AllErrorsReported ==
    (prog = "main" /\ pc = "failed" /\ j = Null)
        => \A n \in 1..Len(logged) : logged[n] \in reported

\* The first non-null value of field k, scanning the blobs root, data,
\* protocol, metrics, summary in order and the aliases in priority order.
FirstFound(p, k) ==
    LET P    == Pools(p)
        hits == {h \in (1..Len(P)) \X (1..Len(Aliases[k])) :
                    /\ Aliases[k][h[2]] \in DOMAIN P[h[1]].d
                    /\ P[h[1]].d[Aliases[k][h[2]]] # Null}
        best == CHOOSE h \in hits :
                    \A g \in hits : h[1] < g[1] \/ (h[1] = g[1] /\ h[2] <= g[2])
    IN  IF hits = {} THEN Null ELSE P[best[1]].d[Aliases[k][best[2]]]

\* C3: pick_snapshot gives every field its first non-null value (0 included);
\* no later blob changes it or resets it to null.
C3_FirstFoundWins ==
    (prog = "pick_snapshot" /\ pc = "done")
        => \A k \in SnapFields : snap[k] = FirstFound(j, k)

\* C4: the overview is asked exactly when one of the four current counters is
\* null after primary resolution; every counter the primary snapshot resolved
\* keeps its value, every null one takes the overview's non-null value, and
\* nothing else changes.
C4_FallbackFillsOnlyNulls ==
    PastFallback =>
        LET primary == pick_snapshot(j)
        IN  /\ ovCalls = (IF NeedsOverview(primary) THEN 1 ELSE 0)
            /\ \A k \in SnapFields :
                  snap[k] = IF primary[k] # Null THEN primary[k]
                            ELSE IF ovCalls = 1 /\ k \in DOMAIN ov THEN ov[k]
                            ELSE Null

\* C4's case: the primary snapshot resolved volume7d and not volume24h, the
\* overview reports another volume7d and a volume24h, and they were merged.
C4_Witness ==
    /\ PastFallback /\ pc = "synthesize"
    /\ pick_snapshot(j)["volume24h"] = Null /\ pick_snapshot(j)["volume7d"] = Num(50)
    /\ ov # <<>> /\ ov["volume24h"] = Num(123) /\ ov["volume7d"] = Num(123)
    /\ snap["volume24h"] = Num(123) /\ snap["volume7d"] = Num(50)

\* C4's other case: a complete primary snapshot, and the overview not asked.
C4_WitnessSkipped ==
    PastFallback /\ ~NeedsOverview(pick_snapshot(j)) /\ ovCalls = 0

\* C5: with no daily series in the payload and the target not found by the
\* overview lookup (the snapshot is empty too), the run fails: nothing is sent
\* to the sink and the exit status is not zero.
C5_NothingToPublishIsFatal ==
    (PastFallback /\ pick_daily_series(j).val = <<>> /\ snap = NoSnapshot
        /\ ovCalls = 1 /\ ov = <<>>)
        => sinkCalls = 0 /\ table = <<>> /\ status # "exit0"

\* The item's date resolves to a calendar day: a dict whose "date" is there
\* and coercible by int().
ValidDate(item) ==
    IsDict(item) /\ Get(item, "date") # Null /\ Coercible(Get(item, "date"))

DateOf(item) == ts_to_date_str(NumberOf(Get(item, "date")))

\* How a numeric field is to be serialized: empty when absent or unparseable,
\* six decimals otherwise.
ExpectedCell(v) == IF v = Null \/ ~Coercible(v) THEN "" ELSE Fixed6(NumberOf(v))

\* Every snapshot counter is absent or numeric, so none makes float() raise.
SnapParses == \A k \in SnapFields : snap[k] = Null \/ Coercible(snap[k])

\* normalize_rows is being run or has been run on `daily`.
Normalizing == prog \in {"main", "normalize_rows"}

\* normalize_rows has returned `out`.
Normalized == Normalizing /\ pc \in {"write_csv", "upload", "done"}

\* C6: normalize_rows returns one row per distinct resolved date, in strictly
\* ascending date order, and the row of a date is the one of its last
\* occurrence in the input.
C6_OneRowPerDate ==
    (Normalized /\ SnapParses) =>
        LET valid == {n \in 1..Len(daily) : ValidDate(daily[n])}
            D     == {DateOf(daily[n]) : n \in valid}
        IN  /\ Len(out) = Cardinality(D)
            /\ \A m \in 1..Len(out) : out[m].date \in D
            /\ \A m \in 1..Len(out) - 1 : out[m].date < out[m + 1].date
            /\ \A m \in 1..Len(out) :
                  LET n == Max({x \in valid : DateOf(daily[x]) = out[m].date})
                  IN  /\ out[m].volume_usd = ExpectedCell(Get(daily[n], "volume"))
                      /\ out[m].open_interest_usd = ExpectedCell(Get(daily[n], "openInterest"))

\* C7: all rows of one run carry the same as_of_utc.
C7_OneCaptureInstant ==
    Normalized => \A m, n \in 1..Len(out) : out[m].as_of_utc = out[n].as_of_utc

\* C8: the rows built so far are exactly the points with a valid date, in
\* source order, an unparseable volume or open interest being left empty.
C8_BadNumberKeepsRow ==
    (Normalizing /\ SnapParses) =>
        LET seen == SelectSeq(SubSeq(daily, 1, i - 1), ValidDate)
        IN  /\ Len(rows) = Len(seen)
            /\ \A m \in 1..Len(rows) :
                  /\ rows[m].date = DateOf(seen[m])
                  /\ rows[m].volume_usd = ExpectedCell(Get(seen[m], "volume"))
                  /\ rows[m].open_interest_usd = ExpectedCell(Get(seen[m], "openInterest"))

\* The rows the loop of normalize_rows builds from `items`, all stamped 0.
RECURSIVE RowsOf(_, _)
RowsOf(items, snp) ==
    IF items = <<>> THEN <<>> ELSE RowOf(Head(items), snp, 0) \o RowsOf(Tail(items), snp)

Unstamped(rs) == [m \in 1..Len(rs) |-> [rs[m] EXCEPT !.as_of_utc = 0]]

\* C9 for normalize_rows: the records without a resolvable date are counted
\* and skipped, the rows are those of the other records, the run goes on.
C9_NormalizeSkipsBadDate ==
    Normalizing =>
        LET seen == SubSeq(daily, 1, i - 1)
        IN  /\ bad >= Len(seen) - Len(SelectSeq(seen, ValidDate))
            /\ Unstamped(rows) = RowsOf(SelectSeq(seen, ValidDate), snap)
            /\ (prog = "normalize_rows" => pc # "failed")

\* C9: a record without a resolvable date is skipped and the run continues
\* with the other records, in normalize_rows and in build_csv: where the
\* other records alone give rows, the run ends well with exactly those rows.
C9_BadDateIsSkipped ==
    /\ C9_NormalizeSkipsBadDate
    /\ (prog = "build_csv" /\ pc \in {"done", "failed"}) =>
          LET others == build_csv(SelectSeq(daily, ValidDate), snap, now, now)
          IN  ~others.raised => (pc = "done" /\ out = others.rows)

\* The points the payload supplies, for payloads holding their series under
\* dailyVolume or as a list under daily: what pick_daily_series is to find,
\* a field taking its first alias that is not null.
SourcePoint(el) ==
    IF IsDict(el)
    THEN <<Dict([date         |-> OrNone(OrNone(Get(el, "date"), Get(el, "timestamp")),
                                         Get(el, "time")),
                 volume       |-> OrNone(Get(el, "volume"), Get(el, "value")),
                 openInterest |-> OrNone(Get(el, "openInterest"), Get(el, "oi"))])>>
    ELSE ConvertEl(el)

RECURSIVE SourcePoints(_)
SourcePoints(s) == IF s = <<>> THEN <<>> ELSE SourcePoint(Head(s)) \o SourcePoints(Tail(s))

SourceSeries(p) ==
    IF ~IsDict(p) THEN <<>>
    ELSE IF NonEmptyList(Get(p, "dailyVolume")) THEN Get(p, "dailyVolume").l
    ELSE IF NonEmptyList(Get(p, "daily")) THEN SourcePoints(Get(p, "daily").l)
    ELSE <<>>

\* The value the sources supply for snapshot counter k: the payload's first
\* non-null one, else the overview's.
SourceCounter(k) ==
    OrNone(FirstFound(j, k), IF ovCalls = 1 /\ k \in DOMAIN ov THEN ov[k] ELSE Null)

\* C10: a numeric field is empty exactly when the source supplied no value; a
\* supplied zero is written 0.000000, from the payload through normalize_rows.
C10_ZeroIsNotEmpty ==
    (prog = "main" /\ Normalized) =>
        \A m \in 1..Len(out) :
            /\ out[m].snapshot_volume_24h = ExpectedCell(SourceCounter("volume24h"))
            /\ out[m].snapshot_volume_7d = ExpectedCell(SourceCounter("volume7d"))
            /\ out[m].snapshot_volume_30d = ExpectedCell(SourceCounter("volume30d"))
            /\ out[m].snapshot_open_interest_now = ExpectedCell(SourceCounter("openInterest"))
            /\ out[m].snapshot_total_volume = ExpectedCell(SourceCounter("totalVolume"))
            /\ LET src == SourceSeries(j)
                   hit == {n \in 1..Len(src) : ValidDate(src[n]) /\ DateOf(src[n]) = out[m].date}
               IN  IF src = <<>> THEN out[m].volume_usd = "" /\ out[m].open_interest_usd = ""
                   ELSE /\ hit # {}
                        /\ out[m].volume_usd = ExpectedCell(Get(src[Max(hit)], "volume"))
                        /\ out[m].open_interest_usd
                              = ExpectedCell(Get(src[Max(hit)], "openInterest"))

\* C15: the debug copy is advisory: a candidate that was fetched and decoded
\* is the one whose payload fetch_first_json returns; it is never logged as a
\* failed candidate, no later candidate is tried, and the fetch does not fail.
C15_DebugCopyIsAdvisory ==
    (prog = "main" /\ decoded # <<>>) =>
        /\ j # Null
        /\ Len(decoded) = 1
        /\ \A n \in 1..Len(logged) : logged[n].url # decoded[1]
        /\ ~(pc = "failed" /\ reported = {last})

\* C16: pick_daily_series returns a list for every payload and never raises;
\* a non-empty list under the top-level dailyVolume is returned as it is, and
\* failing that a non-empty list under data.dailyVolume.
C16_FirstLocationNeverRaises ==
    (prog = "main" /\ j # Null /\ pc # "resolve") =>
        LET r    == pick_daily_series(j)
            data == GetOr(j, "data", EmptyDict)
        IN  /\ ~r.raised
            /\ NonEmptyList(Get(j, "dailyVolume")) => r.val = Get(j, "dailyVolume").l
            /\ (~NonEmptyList(Get(j, "dailyVolume")) /\ NonEmptyList(Get(data, "dailyVolume")))
                  => r.val = Get(data, "dailyVolume").l

\* C17: with no daily series in the payload, normalize_rows returns exactly
\* one row, dated with the UTC day of the moment the placeholder was made,
\* its daily fields empty and its snapshot fields those of the merged
\* snapshot; that row is what is published.
C17_PlaceholderRow ==
    (PastFallback /\ Normalized /\ pick_daily_series(j).val = <<>>) =>
        /\ Len(out) = 1
        /\ \E k \in 0..ticks : out[1].date = ts_to_date_str(now - k)
        /\ out[1].volume_usd = "" /\ out[1].open_interest_usd = ""
        /\ out[1].snapshot_volume_24h = ExpectedCell(snap["volume24h"])
        /\ out[1].snapshot_volume_7d = ExpectedCell(snap["volume7d"])
        /\ out[1].snapshot_volume_30d = ExpectedCell(snap["volume30d"])
        /\ out[1].snapshot_open_interest_now = ExpectedCell(snap["openInterest"])
        /\ out[1].snapshot_total_volume = ExpectedCell(snap["totalVolume"])
        /\ (pc \in {"upload", "done"} => outCsv = out)
        /\ (pc = "done" => table = out)

\* C17 where every merged counter is null or numeric.
C17_NumericSnapshot == SnapParses => C17_PlaceholderRow

\* The sink's answer is a rejection: an HTTP error status or a transport
\* error.
Rejected(ans) == ans.kind \in {"http", "url"}

\* The inserts of the append run made with the primary (NDJSON) and with the
\* fallback (CSV) encoding.
PrimaryCalls == SelectSeq(sinkLog, LAMBDA c : c.op = "insert_ndjson")

FallbackCalls == SelectSeq(sinkLog, LAMBDA c : c.op = "insert_csv")

\* C11: in append mode the primary insert is made once; after its success the
\* run is DONE and the fallback is never made; after any rejection of it (HTTP
\* error status or transport error) the fallback is made exactly once, and
\* the run is DONE if that succeeds and FAILED if that is rejected; the
\* publish never FAILS without the fallback having been made.
C11_FallbackOnAnyRejection ==
    (prog = "append_snapshot" /\ PrimaryCalls # <<>>) =>
        LET p == PrimaryCalls[1].ans
            f == FallbackCalls
        IN  /\ Len(PrimaryCalls) = 1 /\ Len(f) <= 1
            /\ ~Rejected(p) => (pc = "done" /\ f = <<>>)
            /\ Rejected(p) => (pc = "insert_csv" \/ Len(f) = 1)
            /\ (f # <<>> /\ ~Rejected(f[1].ans)) => pc = "done"
            /\ (f # <<>> /\ Rejected(f[1].ans)) => pc = "failed"
            /\ pc = "failed" => f # <<>>

\* The sink answered with a success status and reported no row written.
ZeroRows(ans) == ans.kind = "ok" /\ ans.rows_written = 0

\* C12: a response reporting zero rows written is a rejection: after such a
\* response to the primary insert the fallback is made, after such a response
\* to the fallback the run is FAILED, and the run is never DONE on it.
C12_ZeroRowsIsRejection ==
    (prog = "append_snapshot" /\ PrimaryCalls # <<>>) =>
        /\ ZeroRows(PrimaryCalls[1].ans) => (pc = "insert_csv" \/ FallbackCalls # <<>>)
        /\ (FallbackCalls # <<>> /\ ZeroRows(FallbackCalls[1].ans)) => pc = "failed"
        /\ pc = "done" => ~ZeroRows(sinkLog[Len(sinkLog)].ans)

\* The error the sink returns for an existing table: an HTTP error status
\* with an "already exists" message in the response body.
MeansAlreadyExists(ans) ==
    ans.kind = "http" /\ Contains(Lower(ans.body), <<"already", "exists">>)

\* The run stopped in ensure_table: it failed on the answer to create, its
\* only request to the sink.
StoppedInEnsureTable ==
    pc = "failed" /\ Len(sinkLog) = 1 /\ reported = {sinkLog[1].ans}

\* C13: ensure_table, of the append run and of the backfill run: when create
\* succeeds or fails because the table already exists the run goes on; on
\* every other failure of create the run stops, no row published.
C13_EnsureTableIdempotent ==
    (prog \in {"append_snapshot", "backfill"} /\ sinkLog # <<>>) =>
        LET ans == sinkLog[1].ans
        IN  IF ans.kind = "ok" \/ MeansAlreadyExists(ans)
            THEN ~StoppedInEnsureTable
            ELSE StoppedInEnsureTable /\ table = <<>>

\* C13 for the append run alone.
C13_AppendEnsureTable == prog = "append_snapshot" => C13_EnsureTableIdempotent

\* Where a run stands before its rows are built and ready to be published.
SourceStages ==
    {"fetch", "resolve", "fallback", "synthesize", "normalize", "get_snapshot_row", "page"}

\* The run failed fatally in its source stages: the fatal message carries
\* source errors alone, or pick_daily_series raised.
FailedInSource ==
    /\ pc = "failed"
    /\ \/ reported # {} /\ \A e \in reported : "url" \in DOMAIN e
       \/ prog = "main" /\ j # Null /\ pick_daily_series(j).raised

\* C18: for the full-window republish and the append-snapshot entry points:
\* no request has been made to the sink while the run is still in the fetch,
\* resolution or normalization stage, and a run that failed in its source
\* stages has made no request to the sink.
C18_FetchBeforeSink ==
    prog \in {"main", "append_snapshot", "snapshot_to_dune"} =>
        /\ pc \in SourceStages => sinkLog = <<>>
        /\ FailedInSource => sinkLog = <<>>

\* C18 for hyperliquid_perps_to_dune.main alone.
C18_MainFetchBeforeSink == prog = "main" => C18_FetchBeforeSink

\* C14: of two overlapping runs, each publishes exactly the rows it
\* normalized itself, and once both have ended the table holds the rows of
\* one run that published.
C14_RunsPublishTheirOwnRows ==
    prog = "two_runs" =>
        /\ \A r \in Runs : \A k \in 1..Len(runs[r].sent) : runs[r].sent[k] = runs[r].out
        /\ ((\A r \in Runs : runs[r].pc \in {"done", "failed"})
               /\ (\E r \in Runs : runs[r].pc = "done"))
              => \E r \in Runs : runs[r].pc = "done" /\ table = runs[r].out

====
